---- MODULE Spec2Model ----
(***************************************************************************)
(* Wrappers BackButton, MainButton and WebApp over the host object tree    *)
(* Telegram.WebApp (src/unnamed/part_000, src/src/components/MainButton.ts,*)
(* src/src/components/WebApp.ts).                                          *)
(*                                                                         *)
(* Each wrapper is a module of its own whose default export is             *)
(* `new X()`; the three read and write disjoint parts of the host tree and *)
(* share no state.  A behaviour follows the module named by `imported`.    *)
(***************************************************************************)
EXTENDS Integers, Sequences, FiniteSets

VARIABLES
    imported,       \* the wrapper module the page loads
    telegram,       \* which levels of the host chain Telegram.WebApp.* are defined
    instance,       \* per module: "none" (not evaluated), "ok" (exported), "failed" (constructor threw)
    handle,         \* per module: TRUE once the constructor stored the host handle
    hostBack,       \* Telegram.WebApp.BackButton properties
    hostMain,       \* Telegram.WebApp.MainButton properties
    hostWeb,        \* Telegram.WebApp properties
    initDataCache,  \* WebApp._initData
    last,           \* the last construction or property write and the error it raised
    handlers,       \* per button: the set of callbacks the host holds
    regs,           \* the onceClick registrations made so far: button and callback
    calls,          \* per registration: invocations of its callback
    clicks,         \* per registration: click dispatches started while it was registered
    cancelled,      \* per registration: offClick was called with its callback before any click
    stack           \* the click dispatches in progress, innermost last

vars == <<imported, telegram, instance, handle, hostBack, hostMain, hostWeb,
          initDataCache, last, handlers, regs, calls, clicks, cancelled, stack>>

hostVars == <<hostBack, hostMain, hostWeb>>
clickVars == <<handlers, regs, calls, clicks, cancelled, stack>>

Modules == {"BackButton", "MainButton", "WebApp"}
Buttons == {"BackButton", "MainButton"}

(***************************************************************************)
(* JavaScript values.  t is the kind of value, v its content as a sequence *)
(* of characters: a string's characters, a number's decimal digits, "1" or *)
(* "0" for a boolean, and for an array the characters of its only element  *)
(* (the arrays modelled hold one string).                                  *)
(***************************************************************************)
Str(s) == [t |-> "string", v |-> s]
Num(d) == [t |-> "number", v |-> d]
Arr(s) == [t |-> "array", v |-> s]
True == [t |-> "boolean", v |-> <<"1">>]
False == [t |-> "boolean", v |-> <<"0">>]
Null == [t |-> "null", v |-> <<>>]
Undefined == [t |-> "undefined", v |-> <<>>]

UpperHex == <<"#", "A", "B", "C", "D", "E", "F">>
LowerHex == <<"#", "a", "b", "c", "d", "e", "f">>
WhiteHex == <<"#", "f", "f", "f", "f", "f", "f">>
ShortHex == <<"#", "f", "f", "f", "f", "f">>
LongHex == <<"#", "1", "2", "3", "4", "5", "6", "7">>
NoHash == <<"1", "A", "2", "B", "3", "C", "0">>
NonHex == <<"#", "1", "2", "3", "4", "5", "G">>

ValidColors == {Str(UpperHex), Str(LowerHex)}
BadColors == {Str(ShortHex), Str(LongHex), Str(NoHash), Str(NonHex)}
Texts == {Str(<<"G", "o">>)}
Strings == ValidColors \cup BadColors \cup Texts
Booleans == {True, False}
Others == {Num(<<"4", "2">>), Arr(WhiteHex), Null, Undefined}
Values == Strings \cup Booleans \cup Others

\* typeof value
typeof(value) ==
    CASE value.t \in {"array", "null"} -> "object"
      [] OTHER -> value.t

\* ToString(value), the conversion RegExp.prototype.test applies to its argument
JsToString(value) ==
    CASE value.t = "string" -> value.v
      [] value.t = "number" -> value.v
      [] value.t = "boolean" -> IF value.v = <<"1">> THEN <<"t", "r", "u", "e">>
                                                     ELSE <<"f", "a", "l", "s", "e">>
      [] value.t = "array" -> value.v
      [] value.t = "null" -> <<"n", "u", "l", "l">>
      [] OTHER -> <<"u", "n", "d", "e", "f", "i", "n", "e", "d">>

HexDigits == {"0", "1", "2", "3", "4", "5", "6", "7", "8", "9",
              "A", "B", "C", "D", "E", "F", "a", "b", "c", "d", "e", "f"}

\* /^#[0-9A-Fa-f]{6}$/ matched against a character sequence
HexRegexMatches(s) ==
    /\ Len(s) = 7
    /\ s[1] = "#"
    /\ \A i \in 2..7 : s[i] \in HexDigits

\* isValidHexColor(value): the regular expression's test(value)
isValidHexColor(value) == HexRegexMatches(JsToString(value))

Threw(kind, host) == [err |-> kind, host |-> host]
Returned(host) == [err |-> "none", host |-> host]

(***************************************************************************)
(* The host objects.  The host is outside the repository: its properties   *)
(* are plain assignable fields, setText stores the text and setParams      *)
(* stores every field of params that is not undefined.                     *)
(***************************************************************************)
HostSetText(host, value) == [host EXCEPT !.text = value]

HostSetParams(host, params) ==
    [text |-> IF params.text # Undefined THEN params.text ELSE host.text,
     color |-> IF params.color # Undefined THEN params.color ELSE host.color,
     textColor |-> IF params.text_color # Undefined THEN params.text_color ELSE host.textColor,
     isVisible |-> IF params.is_visible # Undefined THEN params.is_visible ELSE host.isVisible,
     isActive |-> IF params.is_active # Undefined THEN params.is_active ELSE host.isActive,
     isProgressVisible |-> host.isProgressVisible]

(***************************************************************************)
(* BackButton                                                              *)
(***************************************************************************)
BackButton_set_isVisible(host, value) ==
    IF typeof(value) # "boolean" THEN Threw("TypeError", host)
    ELSE Returned([host EXCEPT !.isVisible = value])

BackButton_constructor(tg) ==
    IF ~tg.Telegram THEN [err |-> "Error", handle |-> FALSE]
    ELSE IF ~tg.WebApp THEN [err |-> "Error", handle |-> FALSE]
    ELSE IF ~tg.BackButton THEN [err |-> "Error", handle |-> FALSE]
    ELSE [err |-> "none", handle |-> TRUE]

(***************************************************************************)
(* MainButton                                                              *)
(***************************************************************************)
MainButton_set_text(host, value) ==
    IF typeof(value) # "string" THEN Threw("TypeError", host)
    ELSE Returned([host EXCEPT !.text = value])

MainButton_set_color(host, value) ==
    IF ~isValidHexColor(value) THEN Threw("ValueError", host)
    ELSE Returned([host EXCEPT !.color = value])

MainButton_set_textColor(host, value) ==
    IF ~isValidHexColor(value) THEN Threw("ValueError", host)
    ELSE Returned([host EXCEPT !.textColor = value])

MainButton_set_isVisible(host, value) ==
    IF typeof(value) # "boolean" THEN Threw("TypeError", host)
    ELSE Returned([host EXCEPT !.isVisible = value])

\* as MainButton_set_isActive without the typeof check
MainButton_set_isActive_Unchecked(host, value) ==
    Returned([host EXCEPT !.isActive = value])

MainButton_set_isActive(host, value) ==
    IF typeof(value) # "boolean" THEN Threw("TypeError", host)
    ELSE Returned([host EXCEPT !.isActive = value])

MainButton_set_isProgressVisible(host, value) ==
    IF typeof(value) # "boolean" THEN Threw("TypeError", host)
    ELSE Returned([host EXCEPT !.isProgressVisible = value])

MainButton_setText(host, value) ==
    IF typeof(value) # "string" THEN Threw("TypeError", host)
    ELSE Returned(HostSetText(host, value))

MainButton_setParams(host, params) ==
    IF params.text # Undefined /\ typeof(params.text) # "string"
        THEN Threw("TypeError", host)
    ELSE IF params.color # Undefined /\ ~isValidHexColor(params.color)
        THEN Threw("ValueError", host)
    ELSE IF params.text_color # Undefined /\ ~isValidHexColor(params.text_color)
        THEN Threw("ValueError", host)
    ELSE IF params.is_active # Undefined /\ typeof(params.is_active) # "boolean"
        THEN Threw("TypeError", host)
    ELSE IF params.is_visible # Undefined /\ typeof(params.is_visible) # "boolean"
        THEN Threw("TypeError", host)
    ELSE Returned(HostSetParams(host, params))

\* as MainButton_constructor without the check of Telegram.WebApp.MainButton
MainButton_constructor_TwoChecks(tg, host) ==
    IF ~tg.Telegram THEN [err |-> "Error", handle |-> FALSE, host |-> host]
    ELSE IF ~tg.WebApp THEN [err |-> "Error", handle |-> FALSE, host |-> host]
    ELSE LET r == MainButton_set_isVisible(host, True)
         IN  [err |-> r.err, handle |-> TRUE, host |-> r.host]

\* as MainButton_constructor without `this.isVisible = true`
MainButton_constructor_NoShow(tg, host) ==
    IF ~tg.Telegram THEN [err |-> "Error", handle |-> FALSE, host |-> host]
    ELSE IF ~tg.WebApp THEN [err |-> "Error", handle |-> FALSE, host |-> host]
    ELSE IF ~tg.MainButton THEN [err |-> "Error", handle |-> FALSE, host |-> host]
    ELSE [err |-> "none", handle |-> TRUE, host |-> host]

MainButton_constructor(tg, host) ==
    IF ~tg.Telegram THEN [err |-> "Error", handle |-> FALSE, host |-> host]
    ELSE IF ~tg.WebApp THEN [err |-> "Error", handle |-> FALSE, host |-> host]
    ELSE IF ~tg.MainButton THEN [err |-> "Error", handle |-> FALSE, host |-> host]
    ELSE LET r == MainButton_set_isVisible(host, True)
         IN  [err |-> r.err, handle |-> TRUE, host |-> r.host]

(***************************************************************************)
(* WebApp                                                                  *)
(***************************************************************************)
\* as WebApp_set_initData without the typeof check
WebApp_set_initData_Unchecked(host, value) == value

\* the initData setter assigns _initData only; the result is the new _initData
WebApp_set_initData(host, value) ==
    IF typeof(value) # "string" THEN host.initData
    ELSE value

\* as WebApp_set_backgroundColor without the typeof check
WebApp_set_backgroundColor_FormatOnly(host, value) ==
    IF ~isValidHexColor(value) THEN Threw("ValueError", host)
    ELSE Returned([host EXCEPT !.backgroundColor = value])

WebApp_set_backgroundColor(host, value) ==
    IF typeof(value) # "string" THEN Threw("TypeError", host)
    ELSE IF ~isValidHexColor(value) THEN Threw("ValueError", host)
    ELSE Returned([host EXCEPT !.backgroundColor = value])

\* as WebApp_set_headerColor without the format check
WebApp_set_headerColor_TypeOnly(host, value) ==
    IF typeof(value) # "string" THEN Threw("TypeError", host)
    ELSE Returned([host EXCEPT !.headerColor = value])

WebApp_set_headerColor(host, value) ==
    IF typeof(value) # "string" THEN Threw("TypeError", host)
    ELSE IF ~isValidHexColor(value) THEN Threw("ValueError", host)
    ELSE Returned([host EXCEPT !.headerColor = value])

WebApp_set_isClosingConfirmationEnabled(host, value) ==
    IF typeof(value) # "boolean" THEN Threw("TypeError", host)
    ELSE Returned([host EXCEPT !.isClosingConfirmationEnabled = value])

WebApp_set_isVerticalSwipesEnabled(host, value) ==
    IF typeof(value) # "boolean" THEN Threw("TypeError", host)
    ELSE Returned([host EXCEPT !.isVerticalSwipesEnabled = value])

\* the constructor's result: the error, whether _webApp was stored, and _initData
WebApp_constructor(tg, host, cache) ==
    IF ~tg.Telegram THEN [err |-> "Error", handle |-> FALSE, cache |-> cache]
    ELSE IF ~tg.WebApp THEN [err |-> "Error", handle |-> FALSE, cache |-> cache]
    ELSE [err |-> "none", handle |-> TRUE, cache |-> host.initData]

(***************************************************************************)
(* State machine: module evaluation and property writes                    *)
(***************************************************************************)
MaxFields == 2

\* the host chain: nothing, Telegram alone, Telegram.WebApp without the button
\* objects, and the whole tree
TelegramStates ==
    {tg \in [Telegram : BOOLEAN, WebApp : BOOLEAN, BackButton : BOOLEAN, MainButton : BOOLEAN] :
        /\ tg.WebApp => tg.Telegram
        /\ tg.BackButton => tg.WebApp
        /\ tg.MainButton = tg.BackButton}

InitDatas == {Str(<<"q", "=", "1">>), Str(<<"q", "=", "2">>)}

\* the params objects passed to setParams: undefined is an absent field
AllParams ==
    [text : {Undefined, Str(<<"G", "o">>), Num(<<"4", "2">>), Null},
     color : {Undefined, Str(LowerHex), Str(NonHex), Arr(WhiteHex)},
     text_color : {Undefined, Str(UpperHex), Str(ShortHex), Arr(WhiteHex)},
     is_active : {Undefined, False, Str(<<"G", "o">>)},
     is_visible : {Undefined, False, Null}]

Present(params) ==
    {f \in {"text", "color", "text_color", "is_active", "is_visible"} : params[f] # Undefined}

Params == {p \in AllParams : Cardinality(Present(p)) <= MaxFields}

Init ==
    /\ imported \in Modules
    /\ telegram \in TelegramStates
    /\ instance = [m \in Modules |-> "none"]
    /\ handle = [m \in Modules |-> FALSE]
    /\ hostBack = [isVisible |-> False]
    /\ hostMain \in [text : {Str(<<"G", "o">>)}, color : {Str(UpperHex)},
                     textColor : {Str(LowerHex)}, isVisible : Booleans,
                     isActive : {True}, isProgressVisible : {False}]
    /\ hostWeb = [initData |-> Str(<<"q", "=", "1">>), backgroundColor |-> Str(LowerHex),
                  headerColor |-> Str(UpperHex),
                  isClosingConfirmationEnabled |-> False,
                  isVerticalSwipesEnabled |-> True]
    /\ initDataCache = Undefined
    /\ last = [op |-> "none", err |-> "none"]
    /\ handlers = [b \in Buttons |-> {}]
    /\ regs = <<>>
    /\ calls = <<>>
    /\ clicks = <<>>
    /\ cancelled = <<>>
    /\ stack = <<>>

\* `export default new X()`: the instance exists only if the constructor returned
Exported(m) == imported = m /\ instance[m] = "ok"

Outcome(err) == IF err = "none" THEN "ok" ELSE "failed"

NewBackButton ==
    /\ imported = "BackButton" /\ instance["BackButton"] = "none"
    /\ LET r == BackButton_constructor(telegram)
       IN  /\ instance' = [instance EXCEPT !["BackButton"] = Outcome(r.err)]
           /\ handle' = [handle EXCEPT !["BackButton"] = r.handle]
           /\ last' = [op |-> "new BackButton", err |-> r.err]
    /\ UNCHANGED <<imported, telegram, hostVars, initDataCache, clickVars>>

NewMainButton ==
    /\ imported = "MainButton" /\ instance["MainButton"] = "none"
    /\ LET r == MainButton_constructor(telegram, hostMain)
       IN  /\ instance' = [instance EXCEPT !["MainButton"] = Outcome(r.err)]
           /\ handle' = [handle EXCEPT !["MainButton"] = r.handle]
           /\ hostMain' = r.host
           /\ last' = [op |-> "new MainButton", err |-> r.err]
    /\ UNCHANGED <<imported, telegram, hostBack, hostWeb, initDataCache, clickVars>>

NewWebApp ==
    /\ imported = "WebApp" /\ instance["WebApp"] = "none"
    /\ LET r == WebApp_constructor(telegram, hostWeb, initDataCache)
       IN  /\ instance' = [instance EXCEPT !["WebApp"] = Outcome(r.err)]
           /\ handle' = [handle EXCEPT !["WebApp"] = r.handle]
           /\ initDataCache' = r.cache
           /\ last' = [op |-> "new WebApp", err |-> r.err]
    /\ UNCHANGED <<imported, telegram, hostVars, clickVars>>

BackCall(op, r) ==
    /\ hostBack' = r.host
    /\ last' = [op |-> op, err |-> r.err]
    /\ UNCHANGED <<imported, telegram, instance, handle, hostMain, hostWeb,
                   initDataCache, clickVars>>

MainCall(op, r) ==
    /\ hostMain' = r.host
    /\ last' = [op |-> op, err |-> r.err]
    /\ UNCHANGED <<imported, telegram, instance, handle, hostBack, hostWeb,
                   initDataCache, clickVars>>

WebCall(op, r) ==
    /\ hostWeb' = r.host
    /\ last' = [op |-> op, err |-> r.err]
    /\ UNCHANGED <<imported, telegram, instance, handle, hostBack, hostMain,
                   initDataCache, clickVars>>

BackButtonSetIsVisible(value) ==
    Exported("BackButton")
    /\ BackCall("BackButton.isVisible", BackButton_set_isVisible(hostBack, value))

MainButtonSetText(value) ==
    Exported("MainButton")
    /\ MainCall("MainButton.text", MainButton_set_text(hostMain, value))

MainButtonSetColor(value) ==
    Exported("MainButton")
    /\ MainCall("MainButton.color", MainButton_set_color(hostMain, value))

MainButtonSetTextColor(value) ==
    Exported("MainButton")
    /\ MainCall("MainButton.textColor", MainButton_set_textColor(hostMain, value))

MainButtonSetIsVisible(value) ==
    Exported("MainButton")
    /\ MainCall("MainButton.isVisible", MainButton_set_isVisible(hostMain, value))

MainButtonSetIsActive(value) ==
    Exported("MainButton")
    /\ MainCall("MainButton.isActive", MainButton_set_isActive(hostMain, value))

MainButtonSetIsProgressVisible(value) ==
    Exported("MainButton")
    /\ MainCall("MainButton.isProgressVisible",
                MainButton_set_isProgressVisible(hostMain, value))

MainButtonSetTextMethod(value) ==
    Exported("MainButton")
    /\ MainCall("MainButton.setText", MainButton_setText(hostMain, value))

MainButtonSetParams(params) ==
    Exported("MainButton")
    /\ MainCall("MainButton.setParams", MainButton_setParams(hostMain, params))

WebAppSetInitData(value) ==
    /\ Exported("WebApp")
    /\ initDataCache' = WebApp_set_initData(hostWeb, value)
    /\ last' = [op |-> "WebApp.initData", err |-> "none"]
    /\ UNCHANGED <<imported, telegram, instance, handle, hostVars, clickVars>>

WebAppSetBackgroundColor(value) ==
    Exported("WebApp")
    /\ WebCall("WebApp.backgroundColor", WebApp_set_backgroundColor(hostWeb, value))

WebAppSetHeaderColor(value) ==
    Exported("WebApp")
    /\ WebCall("WebApp.headerColor", WebApp_set_headerColor(hostWeb, value))

WebAppSetIsClosingConfirmationEnabled(value) ==
    Exported("WebApp")
    /\ WebCall("WebApp.isClosingConfirmationEnabled",
               WebApp_set_isClosingConfirmationEnabled(hostWeb, value))

WebAppSetIsVerticalSwipesEnabled(value) ==
    Exported("WebApp")
    /\ WebCall("WebApp.isVerticalSwipesEnabled",
               WebApp_set_isVerticalSwipesEnabled(hostWeb, value))

\* the host replaces its own initData (the wrapper is not involved)
HostChangesInitData(value) ==
    /\ imported = "WebApp" /\ telegram.WebApp
    /\ hostWeb.initData # value
    /\ hostWeb' = [hostWeb EXCEPT !.initData = value]
    /\ UNCHANGED <<imported, telegram, instance, handle, hostBack, hostMain,
                   initDataCache, last, clickVars>>

Next ==
    \/ NewBackButton
    \/ NewMainButton
    \/ NewWebApp
    \/ \E value \in Values : BackButtonSetIsVisible(value)
    \/ \E value \in Values : MainButtonSetText(value)
    \/ \E value \in Values : MainButtonSetColor(value)
    \/ \E value \in Values : MainButtonSetTextColor(value)
    \/ \E value \in Values : MainButtonSetIsVisible(value)
    \/ \E value \in Values : MainButtonSetIsActive(value)
    \/ \E value \in Values : MainButtonSetIsProgressVisible(value)
    \/ \E value \in Values : MainButtonSetTextMethod(value)
    \/ \E params \in Params : MainButtonSetParams(params)
    \/ \E value \in Values : WebAppSetInitData(value)
    \/ \E value \in Values : WebAppSetBackgroundColor(value)
    \/ \E value \in Values : WebAppSetHeaderColor(value)
    \/ \E value \in Values : WebAppSetIsClosingConfirmationEnabled(value)
    \/ \E value \in Values : WebAppSetIsVerticalSwipesEnabled(value)
    \/ \E value \in InitDatas : HostChangesInitData(value)

Spec == Init /\ [][Next]_vars

(***************************************************************************)
(* Click callbacks.  A callback the host holds is either a function of the *)
(* application (kind "cb") or the handleClick closure that one onceClick   *)
(* call created (kind "once", id its registration).  The host keeps each   *)
(* function once, removes by identity, and on a click calls the functions  *)
(* it held when the click arrived and still holds, going on to the next    *)
(* when one throws.  The order of the calls is the host's: the registry is *)
(* a set and a dispatch takes its functions in any order.  A function of   *)
(* the application runs and returns without an effect on this state, so a  *)
(* dispatch lists the handleClick closures only.                           *)
(***************************************************************************)
MaxRegs == 1
MaxDepth == 2
MaxClicks == 2
NumCallbacks == 2

Callbacks == 1..NumCallbacks
Cb(c) == [kind |-> "cb", id |-> c]
Once(r) == [kind |-> "once", id |-> r]

HostOnClick(held, f) == held \cup {f}
HostOffClick(held, f) == held \ {f}

\* onClick(callback) and offClick(callback) of either button
Button_onClick(held, f) == HostOnClick(held, f)
\* as Button_offClick, also removing the handleClick closures that wrap f
Button_offClick_Unwrapping(held, f) ==
    {y \in HostOffClick(held, f) :
        ~(y.kind = "once" /\ f.kind = "cb" /\ regs[y.id].cb = f.id)}

Button_offClick(held, f) == HostOffClick(held, f)

\* onceClick(callback): registers the new closure handleClick, numbered r
Button_onceClick(held, r) == Button_onClick(held, Once(r))

\* handleClick after callback() returned: this.offClick(handleClick)
handleClick_afterCallback(held, r) == Button_offClick(held, Once(r))

\* handleClick when callback() threw: the exception leaves handleClick
handleClick_callbackThrew(held, r) == held

Top == stack[Len(stack)]
\* application code runs at top level and inside a callback
AppRunning == IF stack = <<>> THEN TRUE ELSE Top.cur # 0

ClickCall(b) ==
    /\ Exported(b)
    /\ AppRunning
    /\ UNCHANGED <<imported, telegram, instance, handle, hostVars, initDataCache, last>>

ButtonOnClick(b, c) ==
    /\ ClickCall(b)
    /\ handlers' = [handlers EXCEPT ![b] = Button_onClick(@, Cb(c))]
    /\ UNCHANGED <<regs, calls, clicks, cancelled, stack>>

ButtonOffClick(b, c) ==
    /\ ClickCall(b)
    /\ handlers' = [handlers EXCEPT ![b] = Button_offClick(@, Cb(c))]
    /\ cancelled' = [r \in 1..Len(regs) |->
                        \/ cancelled[r]
                        \/ regs[r] = [btn |-> b, cb |-> c] /\ clicks[r] = 0]
    /\ UNCHANGED <<regs, calls, clicks, stack>>

ButtonOnceClick(b, c) ==
    /\ ClickCall(b)
    /\ Len(regs) < MaxRegs
    /\ regs' = Append(regs, [btn |-> b, cb |-> c])
    /\ calls' = Append(calls, 0)
    /\ clicks' = Append(clicks, 0)
    /\ cancelled' = Append(cancelled, FALSE)
    /\ handlers' = [handlers EXCEPT ![b] = Button_onceClick(@, Len(regs) + 1)]
    /\ UNCHANGED stack

\* the host starts dispatching a click of button b: from the event loop, or
\* from inside a running callback that triggers it
HostClick(b) ==
    /\ imported = b /\ telegram[b]
    /\ AppRunning
    /\ Len(stack) < MaxDepth
    /\ \A r \in 1..Len(regs) : clicks[r] < MaxClicks
    /\ stack' = Append(stack, [btn |-> b, todo |-> {f \in handlers[b] : f.kind = "once"},
                                cur |-> 0])
    /\ clicks' = [r \in 1..Len(regs) |-> IF regs[r].btn = b THEN clicks[r] + 1 ELSE clicks[r]]
    /\ UNCHANGED <<imported, telegram, instance, handle, hostVars, initDataCache, last,
                   handlers, regs, calls, cancelled>>

SetTop(frame) == [stack EXCEPT ![Len(stack)] = frame]

\* the host calls a function of the dispatch, unless it was removed since the
\* click arrived; handleClick begins with callback()
HostInvokes ==
    /\ stack # <<>> /\ Top.cur = 0
    /\ \E f \in Top.todo :
         LET rest == [Top EXCEPT !.todo = Top.todo \ {f}]
         IN  IF f \in handlers[Top.btn]
             THEN /\ calls' = [calls EXCEPT ![f.id] = @ + 1]
                  /\ stack' = SetTop([rest EXCEPT !.cur = f.id])
             ELSE /\ calls' = calls
                  /\ stack' = SetTop(rest)
    /\ UNCHANGED <<imported, telegram, instance, handle, hostVars, initDataCache, last,
                   handlers, regs, clicks, cancelled>>

CallbackReturns ==
    /\ stack # <<>> /\ Top.cur # 0
    /\ handlers' = [handlers EXCEPT ![Top.btn] = handleClick_afterCallback(@, Top.cur)]
    /\ stack' = SetTop([Top EXCEPT !.cur = 0])
    /\ UNCHANGED <<imported, telegram, instance, handle, hostVars, initDataCache, last,
                   regs, calls, clicks, cancelled>>

CallbackThrows ==
    /\ stack # <<>> /\ Top.cur # 0
    /\ handlers' = [handlers EXCEPT ![Top.btn] = handleClick_callbackThrew(@, Top.cur)]
    /\ stack' = SetTop([Top EXCEPT !.cur = 0])
    /\ UNCHANGED <<imported, telegram, instance, handle, hostVars, initDataCache, last,
                   regs, calls, clicks, cancelled>>

HostDispatchEnds ==
    /\ stack # <<>> /\ Top.cur = 0 /\ Top.todo = {}
    /\ stack' = SubSeq(stack, 1, Len(stack) - 1)
    /\ UNCHANGED <<imported, telegram, instance, handle, hostVars, initDataCache, last,
                   handlers, regs, calls, clicks, cancelled>>

InitClick == Init /\ imported \in Buttons

NextClick ==
    \/ NewBackButton
    \/ NewMainButton
    \/ \E b \in Buttons, c \in Callbacks : ButtonOnClick(b, c)
    \/ \E b \in Buttons, c \in Callbacks : ButtonOffClick(b, c)
    \/ \E b \in Buttons, c \in Callbacks : ButtonOnceClick(b, c)
    \/ \E b \in Buttons : HostClick(b)
    \/ HostInvokes
    \/ CallbackReturns
    \/ CallbackThrows
    \/ HostDispatchEnds

SpecClick == InitClick /\ [][NextClick]_vars

(***************************************************************************)
(* Properties                                                              *)
(***************************************************************************)
\* a string of the form # followed by six hexadecimal digits
IsHexColor(value) == value.t = "string" /\ HexRegexMatches(value.v)

\* the host chain a module's constructor needs is not all there
ChainAbsent(m) ==
    \/ ~telegram.Telegram
    \/ ~telegram.WebApp
    \/ m \in Buttons /\ ~telegram[m]

BooleanSetterPost(value, before, after, err) ==
    IF value \in Booleans THEN after = value /\ err = "none"
    ELSE after = before /\ err = "TypeError"

\* C4: every boolean-typed property setter raises a type error for a
\* non-boolean input and leaves the host value of the property unchanged; for
\* a boolean input the host value becomes that input.
C4_BooleanSetters ==
    [][/\ last'.op = "BackButton.isVisible" =>
            \A value \in Values : BackButtonSetIsVisible(value) =>
                BooleanSetterPost(value, hostBack.isVisible, hostBack'.isVisible, last'.err)
       /\ last'.op = "MainButton.isVisible" =>
            \A value \in Values : MainButtonSetIsVisible(value) =>
                BooleanSetterPost(value, hostMain.isVisible, hostMain'.isVisible, last'.err)
       /\ last'.op = "MainButton.isActive" =>
            \A value \in Values : MainButtonSetIsActive(value) =>
                BooleanSetterPost(value, hostMain.isActive, hostMain'.isActive, last'.err)
       /\ last'.op = "MainButton.isProgressVisible" =>
            \A value \in Values : MainButtonSetIsProgressVisible(value) =>
                BooleanSetterPost(value, hostMain.isProgressVisible,
                                  hostMain'.isProgressVisible, last'.err)
       /\ last'.op = "WebApp.isClosingConfirmationEnabled" =>
            \A value \in Values : WebAppSetIsClosingConfirmationEnabled(value) =>
                BooleanSetterPost(value, hostWeb.isClosingConfirmationEnabled,
                                  hostWeb'.isClosingConfirmationEnabled, last'.err)
       /\ last'.op = "WebApp.isVerticalSwipesEnabled" =>
            \A value \in Values : WebAppSetIsVerticalSwipesEnabled(value) =>
                BooleanSetterPost(value, hostWeb.isVerticalSwipesEnabled,
                                  hostWeb'.isVerticalSwipesEnabled, last'.err)]_vars

\* MainButton.isActive was assigned a non-boolean: the type error, and the host
\* flag still at its initial value
C4_Witness ==
    /\ last = [op |-> "MainButton.isActive", err |-> "TypeError"]
    /\ hostMain.isActive = True

ColorSetterPost(s, before, after, err) ==
    IF HexRegexMatches(s.v) THEN after = s /\ err = "none"
    ELSE after = before /\ err = "ValueError"

\* C5: for every color property setter and every string s, a string that does
\* not match ^#[0-9A-Fa-f]{6}$ raises a value error and leaves the host color
\* unchanged, and a string that matches is stored in the host exactly as given.
C5_ColorSetters ==
    [][/\ last'.op = "MainButton.color" =>
            \A s \in Strings : MainButtonSetColor(s) =>
                ColorSetterPost(s, hostMain.color, hostMain'.color, last'.err)
       /\ last'.op = "MainButton.textColor" =>
            \A s \in Strings : MainButtonSetTextColor(s) =>
                ColorSetterPost(s, hostMain.textColor, hostMain'.textColor, last'.err)
       /\ last'.op = "WebApp.backgroundColor" =>
            \A s \in Strings : WebAppSetBackgroundColor(s) =>
                ColorSetterPost(s, hostWeb.backgroundColor, hostWeb'.backgroundColor,
                                last'.err)
       /\ last'.op = "WebApp.headerColor" =>
            \A s \in Strings : WebAppSetHeaderColor(s) =>
                ColorSetterPost(s, hostWeb.headerColor, hostWeb'.headerColor, last'.err)]_vars

\* WebApp.headerColor was assigned the lower-case color and the host holds it
\* in lower case
C5_Witness ==
    /\ last = [op |-> "WebApp.headerColor", err |-> "none"]
    /\ hostWeb.headerColor = Str(LowerHex)

\* the fields of params that fail their check: text not a string, color or
\* text_color not a hex color, is_active or is_visible not a boolean
FailingFields(params) ==
    {f \in Present(params) :
        \/ f = "text" /\ params[f].t # "string"
        \/ f \in {"color", "text_color"} /\ ~IsHexColor(params[f])
        \/ f \in {"is_active", "is_visible"} /\ params[f].t # "boolean"}

ErrorKindOf(f) == IF f \in {"color", "text_color"} THEN "ValueError" ELSE "TypeError"

\* C3: setParams applies nothing partially: when any present field of params
\* fails its check the call raises the error kind of a failing field and the
\* host main button is exactly what it was, and the host's setParams is called
\* only when every present field passes.
C3_SetParamsAllOrNothing ==
    [][last'.op = "MainButton.setParams" =>
        \A params \in Params : MainButtonSetParams(params) =>
            IF FailingFields(params) # {}
            THEN /\ \E f \in FailingFields(params) : last'.err = ErrorKindOf(f)
                 /\ hostMain' = hostMain
            ELSE /\ last'.err = "none"
                 /\ hostMain' = HostSetParams(hostMain, params)]_vars

\* C6: the hex validation accepts a value if and only if it is a string of the
\* form # and six hexadecimal digits, so MainButton.color, MainButton.textColor
\* and the color and text_color fields of setParams never forward a non-string
\* value to the host.
C6_HexValidationRejectsNonStrings ==
    [][/\ last'.op = "MainButton.color" =>
            \A value \in Values : MainButtonSetColor(value) =>
                /\ last'.err = "none" <=> IsHexColor(value)
                /\ hostMain'.color.t = "string"
       /\ last'.op = "MainButton.textColor" =>
            \A value \in Values : MainButtonSetTextColor(value) =>
                /\ last'.err = "none" <=> IsHexColor(value)
                /\ hostMain'.textColor.t = "string"
       /\ last'.op = "MainButton.setParams" =>
            \A params \in Params : MainButtonSetParams(params) =>
                /\ hostMain'.color.t = "string"
                /\ hostMain'.textColor.t = "string"]_vars

\* C7: the initData setter never raises and never writes to the host; a string
\* becomes the value the getter returns, a non-string makes the getter return
\* the host's initData as it is at the assignment, never the assigned value;
\* the getter's value is a string as long as the host's initData is one.
C7_InitDataSetter ==
    [][/\ last'.op = "WebApp.initData" =>
            \A value \in Values : WebAppSetInitData(value) =>
                /\ last'.err = "none"
                /\ hostWeb' = hostWeb
                /\ value.t = "string" => initDataCache' = value
                /\ value.t # "string" =>
                     initDataCache' = hostWeb.initData /\ initDataCache' # value
       /\ instance'["WebApp"] = "ok" => initDataCache'.t = "string"]_vars

\* WebApp.initData was assigned (a non-string) after the host replaced its
\* initData: the getter returns the host's present value, not the one read at
\* construction
C7_Witness ==
    /\ last = [op |-> "WebApp.initData", err |-> "none"]
    /\ hostWeb.initData = Str(<<"q", "=", "2">>)
    /\ initDataCache = hostWeb.initData

OpsOf(m) ==
    IF m = "BackButton" THEN {"BackButton.isVisible"}
    ELSE IF m = "MainButton"
        THEN {"MainButton.text", "MainButton.color", "MainButton.textColor",
              "MainButton.isVisible", "MainButton.isActive",
              "MainButton.isProgressVisible", "MainButton.setText",
              "MainButton.setParams"}
    ELSE {"WebApp.initData", "WebApp.backgroundColor", "WebApp.headerColor",
          "WebApp.isClosingConfirmationEnabled", "WebApp.isVerticalSwipesEnabled"}

ConstructionFailed(m) ==
    /\ instance'[m] = "failed"
    /\ ~handle'[m]
    /\ last'.err = "Error"
    /\ UNCHANGED <<hostVars, initDataCache>>

\* C8: constructing a wrapper when its host chain is absent raises a plain
\* Error before a handle is stored or the host is touched, and no operation of
\* that wrapper is ever performed: BackButton and MainButton need Telegram,
\* Telegram.WebApp and their button object, WebApp needs Telegram and
\* Telegram.WebApp.
C8_ConstructionFailsWithoutHost ==
    [][/\ NewBackButton /\ ChainAbsent("BackButton") => ConstructionFailed("BackButton")
       /\ NewMainButton /\ ChainAbsent("MainButton") => ConstructionFailed("MainButton")
       /\ NewWebApp /\ ChainAbsent("WebApp") => ConstructionFailed("WebApp")
       /\ \A m \in Modules : ChainAbsent(m) =>
            /\ last'.op \notin OpsOf(m)
            /\ instance'[m] # "ok"]_vars

\* MainButton was constructed with Telegram.WebApp defined and
\* Telegram.WebApp.MainButton undefined
C8_Witness ==
    /\ telegram.WebApp /\ ~telegram.MainButton
    /\ instance["MainButton"] = "failed"
    /\ last = [op |-> "new MainButton", err |-> "Error"]

\* C9: a successful construction of MainButton leaves the host main button's
\* isVisible true whatever it was and changes nothing else of the host;
\* constructing BackButton or WebApp writes nothing to the host.
C9_ConstructionEffects ==
    [][/\ NewMainButton /\ instance'["MainButton"] = "ok" =>
            /\ hostMain' = [hostMain EXCEPT !.isVisible = True]
            /\ UNCHANGED <<hostBack, hostWeb>>
       /\ NewBackButton => UNCHANGED hostVars
       /\ NewWebApp => UNCHANGED hostVars]_vars

\* MainButton was constructed and the host main button is visible
C9_Witness ==
    /\ last = [op |-> "new MainButton", err |-> "none"]
    /\ instance["MainButton"] = "ok"
    /\ hostMain.isVisible = True

StringWriterPost(value, before, after, err) ==
    value.t # "string" => err = "TypeError" /\ after = before

\* C10: MainButton.text, MainButton.setText, WebApp.backgroundColor and
\* WebApp.headerColor raise a type error for every non-string input and leave
\* the host unchanged; the two WebApp color setters raise a value error only
\* for a string that fails the hex format.
C10_StringWritersCheckTypeFirst ==
    [][/\ last'.op = "MainButton.text" =>
            \A value \in Values : MainButtonSetText(value) =>
                StringWriterPost(value, hostMain, hostMain', last'.err)
       /\ last'.op = "MainButton.setText" =>
            \A value \in Values : MainButtonSetTextMethod(value) =>
                StringWriterPost(value, hostMain, hostMain', last'.err)
       /\ last'.op = "WebApp.backgroundColor" =>
            \A value \in Values : WebAppSetBackgroundColor(value) =>
                /\ StringWriterPost(value, hostWeb, hostWeb', last'.err)
                /\ last'.err = "ValueError" =>
                     value.t = "string" /\ ~HexRegexMatches(value.v)
       /\ last'.op = "WebApp.headerColor" =>
            \A value \in Values : WebAppSetHeaderColor(value) =>
                /\ StringWriterPost(value, hostWeb, hostWeb', last'.err)
                /\ last'.err = "ValueError" =>
                     value.t = "string" /\ ~HexRegexMatches(value.v)]_vars

\* MainButton.setText was called with a non-string: the type error, and the
\* host text still the initial one
C10_Witness ==
    /\ last = [op |-> "MainButton.setText", err |-> "TypeError"]
    /\ hostMain.text = Str(<<"G", "o">>)

\* C1: every registration made by onceClick results in at most one invocation
\* of its callback, over any sequence of click dispatches that follows
\* (a click dispatched while the callback runs, a click after the callback
\* threw).
C1_OnceClickAtMostOnce ==
    \A r \in 1..Len(regs) : calls[r] <= 1

\* C2: once a click that followed onceClick(cb) has been dispatched, cb has
\* been called exactly once and the host holds no callback of that
\* registration, so a further click does not call cb again.
C2_OnceClickExactlyOnce ==
    \A r \in 1..Len(regs) :
        stack = <<>> /\ clicks[r] >= 1 =>
            /\ calls[r] = 1
            /\ Once(r) \notin handlers[regs[r].btn]

\* C11: a one-shot registration cannot be cancelled with the caller's own
\* callback: offClick(cb) removes from the host the function cb alone (a
\* registration made by onClick(cb)) and never the handleClick closure that
\* onceClick(cb) registered, so a closure cancelled that way before any click
\* is still held until it is called, and the next click calls cb.
C11_OnceClickNotCancelledByCallback ==
    [][/\ \A b \in Buttons, c \in Callbacks : ButtonOffClick(b, c) =>
            /\ handlers'[b] = handlers[b] \ {Cb(c)}
            /\ \A r \in 1..Len(regs) :
                 Once(r) \in handlers[b] => Once(r) \in handlers'[b]
       /\ \A r \in 1..Len(regs') : cancelled'[r] =>
            /\ calls'[r] = 0 => Once(r) \in handlers'[regs'[r].btn]
            /\ stack' = <<>> /\ clicks'[r] >= 1 => calls'[r] >= 1]_vars

\* onceClick(cb), then offClick(cb) before any click, then one click: cb was
\* called
C11_Witness ==
    \E r \in 1..Len(regs) :
        /\ cancelled[r]
        /\ stack = <<>>
        /\ clicks[r] = 1
        /\ calls[r] = 1

====
